---- MODULE Spec2Model ----
(***************************************************************************)
(* Download-token lifecycle of the zone plate generator                    *)
(* (src/src/zone_plate_ui/controllers/main.py) together with the part of   *)
(* ZonePlateGenerator it calls (src/src/zone_plate_ui/models/zone_plate.py)*)
(*                                                                         *)
(* The session layer is the web framework's.  It is modelled as what the   *)
(* handlers see: one mapping per session, session['download_tokens'],      *)
(* which every request of that session reads and mutates in place.  A      *)
(* request is a sequence of steps, one per access to that mapping, to the  *)
(* clock or to the output directory; the steps of concurrent requests      *)
(* interleave.  Time is counted in whole seconds.                          *)
(***************************************************************************)
EXTENDS Integers, Sequences, FiniteSets, Bags, TLC

\* ---- bounds of the model ------------------------------------------------
MaxReq    == 2    \* requests of one session in flight at the same time
MaxTokens == 2    \* successful renders (artifacts, tokens) in a behaviour
MaxTicks  == 1    \* times the clock advances in a behaviour
MaxChanged == 1   \* fields in which a parameter set differs from the defaults

\* ---- program constants --------------------------------------------------
TTL == 300        \* main.py:95  expiration = time.time() + 300

TokenIds == 1..MaxTokens
FileIds  == 1..MaxTokens
\* a path segment that is no token /generate ever issued
BogusToken == 0
\* the clock advances by a second, by the lifetime of a token, or just past it
TickSteps == {1, TTL, TTL + 1}
Kinds == {"index", "generate", "download", "set_theme", "health"}

VARIABLES
    now,              \* time.time()
    ticks,            \* how often the clock has advanced
    in_session,       \* 'download_tokens' in session
    download_tokens,  \* session['download_tokens']: token -> [filename, expires]
    files,            \* names of the files in OUTPUT_DIR
    nextToken,        \* tokens drawn so far from secrets.token_urlsafe
    nextFile,         \* artifacts named so far by generate_image
    req,              \* the requests in flight, a bag: position and locals of each
    servedCount,      \* history: token -> responses that carried its file
    job               \* one call of the render pipeline, step by step

vars == <<now, ticks, in_session, download_tokens, files, nextToken, nextFile,
          req, servedCount, job>>

\* ---- responses ----------------------------------------------------------
MsgInvalid  == "Access denied: Invalid download token"
MsgExpired  == "Access denied: Download link has expired"
MsgNotFound == "File not found"
MsgDlError  == "Error downloading file"
MsgGenOk    == "Zone plate generated successfully!"
MsgGenFail  == "Failed to generate zone plate. Please check your parameters."
MsgGenError == "An unexpected error occurred"

NoResponse == [status |-> 0, body |-> "none", flashes |-> <<>>]

Response(status, body, flashes) ==
    [status |-> status, body |-> body, flashes |-> flashes]

\* abort(code) raises werkzeug's HTTPException, which is an Exception.
Abort(code) == [exc |-> "HTTPException", code |-> code]

\* The clause `except Exception` of download: whatever was raised in the try
\* block, an HTTPException included, is answered with a redirect to the index.
DownloadExcept(exc, flashes) ==
    Response(302, "redirect:index", Append(flashes, MsgDlError))

\* ---- helpers ------------------------------------------------------------
\* a request as it arrives: kind, position, the token of the URL, the locals
\* of the handler, and what it answers
NewRequest ==
    [kind |-> "none", pc |-> "none", token |-> 0,
     filename |-> 0, expiredAtStart |-> FALSE, branch |-> "none",
     deleted |-> "none", resp |-> NoResponse]

InFlight == BagToSet(req)

\* the bag of requests after request q has moved on to q2
Moved(q, q2) == (req (-) SetToBag({q})) (+) SetToBag({q2})

Finish(q, branch, resp) ==
    [q EXCEPT !.pc = "done", !.branch = branch, !.resp = resp]

\* a lifetime one minute longer than the code's
ExpirationLong(t) == t + TTL + 60

\* main.py:95  expiration = time.time() + 300
Expiration(t) == t + TTL

\* an expiry test that also fires at the instant of expiry
IsExpiredInclusive(current_time, entry) == current_time >= entry.expires

\* main.py:133, 204  time.time() > entry['expires']
IsExpired(current_time, entry) == current_time > entry.expires

\* a pop that leaves the entry in place
PopKeeps(tokens, token) == tokens

\* dict.pop(token, None)
Pop(tokens, token) == [t \in (DOMAIN tokens) \ {token} |-> tokens[t]]

\* a sweep that removes nothing
CleanupSkips(tokens, current_time) == tokens

\* a sweep that stops after the first expired token
CleanupFirstOnly(tokens, current_time) ==
    LET expired_tokens == {t \in DOMAIN tokens : IsExpired(current_time, tokens[t])}
    IN  IF expired_tokens = {} THEN tokens
        ELSE Pop(tokens, CHOOSE t \in expired_tokens :
                             \A u \in expired_tokens : t <= u)

\* cleanup_expired_tokens: the mapping after the expired tokens were popped.
Cleanup(tokens, current_time) ==
    LET expired_tokens == {t \in DOMAIN tokens : IsExpired(current_time, tokens[t])}
    IN  [t \in (DOMAIN tokens) \ expired_tokens |-> tokens[t]]

\* a token source that hands out the same token again
NewTokenReused(n) == 1

\* main.py:92  secrets.token_urlsafe(32): 256 random bits, taken as a token
\* that was never drawn before
NewToken(n) == n

\* zone_plate.py:162-183  the artifact name carries a timestamp and a uuid
NewFile(n) == n

\* first pc of each route handler
Entry(kind) ==
    CASE kind = "index"     -> "index"
      [] kind = "generate"  -> "gen_run"
      [] kind = "download"  -> "dl_member"
      [] kind = "set_theme" -> "set_theme"
      [] kind = "health"    -> "health"

\* what the session holds for the token
TokenState(token) ==
    IF ~in_session \/ token \notin DOMAIN download_tokens THEN "absent"
    ELSE IF IsExpired(now, download_tokens[token]) THEN "expired"
    ELSE "live"

\* a delete_file that reports success without unlinking
DeleteFileKeeps(fs, filename, raises) ==
    IF filename \in fs /\ ~raises THEN [files |-> fs, result |-> TRUE]
    ELSE [files |-> fs, result |-> FALSE]

\* a delete_file that reports success when there was nothing to remove
DeleteFileBlind(fs, filename, raises) ==
    IF raises /\ filename \in fs THEN [files |-> fs, result |-> FALSE]
    ELSE [files |-> fs \ {filename}, result |-> TRUE]

\* ZonePlateGenerator.delete_file; raises: os.unlink raised
DeleteFile(fs, filename, raises) ==
    IF filename \in fs
    THEN IF raises THEN [files |-> fs, result |-> FALSE]
                   ELSE [files |-> fs \ {filename}, result |-> TRUE]
    ELSE [files |-> fs, result |-> FALSE]

\* Steps that touch neither the session, the clock nor the output directory
\* (a handler that only renders, the delivery of a finished response) are
\* taken before anything else: delaying them would add no behaviour.
LocalPcs == {"done", "index", "set_theme"}

Settled == \A q \in InFlight : q.pc \notin LocalPcs

\* no call of the render pipeline is under way
NoJob == [pc |-> "idle"]

\* ---- state --------------------------------------------------------------
Init ==
    /\ now = 0
    /\ ticks = 0
    /\ in_session = FALSE
    /\ download_tokens = <<>>
    /\ files = {}
    /\ nextToken = 1
    /\ nextFile = 1
    /\ req = EmptyBag
    /\ servedCount = [t \in TokenIds |-> 0]
    /\ job = NoJob

Tick ==
    /\ Settled
    /\ ticks < MaxTicks
    /\ \E d \in TickSteps : now' = now + d
    /\ ticks' = ticks + 1
    /\ UNCHANGED <<job, in_session, download_tokens, files, nextToken, nextFile,
                   req, servedCount>>

\* A request of the session arrives; before_request runs the sweep.
BeforeRequest(kind, token) ==
    /\ Settled
    /\ BagCardinality(req) < MaxReq
    /\ download_tokens' = IF in_session THEN Cleanup(download_tokens, now)
                          ELSE download_tokens
    /\ req' = req (+) SetToBag({[NewRequest EXCEPT
                  !.kind = kind, !.pc = Entry(kind), !.token = token,
                  !.expiredAtStart = (kind = "download"
                                      /\ TokenState(token) = "expired")]})
    /\ UNCHANGED <<job, now, ticks, in_session, files, nextToken, nextFile,
                   servedCount>>

\* The client asks for a page, or follows a download link: one it was given,
\* or one that was never issued.
Arrive ==
    \E kind \in Kinds :
        \E token \in (IF kind = "download"
                      THEN {t \in TokenIds : t < nextToken} \cup {BogusToken}
                      ELSE {0}) :
            BeforeRequest(kind, token)

\* The client waits for the answer before it sends the next request.
ArriveSeq ==
    /\ req = EmptyBag
    /\ Arrive

\* ---- index, set_theme, health --------------------------------------------
Index(q) ==
    /\ q.pc = "index"
    /\ req' = Moved(q, Finish(q, "page", Response(200, "index.html", <<>>)))
    /\ UNCHANGED <<job, now, ticks, in_session, download_tokens, files, nextToken,
                   nextFile, servedCount>>

SetTheme(q) ==
    /\ q.pc = "set_theme"
    /\ req' = Moved(q, Finish(q, "theme",
                              Response(302, "redirect:referrer", <<>>)))
    /\ UNCHANGED <<job, now, ticks, in_session, download_tokens, files, nextToken,
                   nextFile, servedCount>>

Health(q) ==
    /\ Settled
    /\ q.pc = "health"
    /\ download_tokens' = IF in_session THEN Cleanup(download_tokens, now)
                          ELSE download_tokens
    /\ req' = Moved(q, Finish(q, "health", Response(200, "json", <<>>)))
    /\ UNCHANGED <<job, now, ticks, in_session, files, nextToken, nextFile,
                   servedCount>>

\* ---- generate -----------------------------------------------------------
\* main.py:40-113.  Parameter extraction, validation and generate_image are
\* taken by their outcome; a successful render leaves a new file in
\* OUTPUT_DIR, and lines 90-105 store a token for it.
Generate(q) ==
    /\ Settled
    /\ q.pc = "gen_run"
    /\ \E outcome \in {"invalid", "exception", "failed", "rendered"} :
        CASE outcome = "invalid" ->
                /\ req' = Moved(q, Finish(q, "invalid",
                                          Response(400, "json:errors", <<>>)))
                /\ UNCHANGED <<in_session, download_tokens, files, nextToken,
                               nextFile>>
          [] outcome = "exception" ->
                /\ req' = Moved(q, Finish(q, "exception",
                              Response(302, "redirect:index", <<MsgGenError>>)))
                /\ UNCHANGED <<in_session, download_tokens, files, nextToken,
                               nextFile>>
          [] outcome = "failed" ->
                /\ req' = Moved(q, Finish(q, "failed",
                              Response(302, "redirect:index", <<MsgGenFail>>)))
                /\ UNCHANGED <<in_session, download_tokens, files, nextToken,
                               nextFile>>
          [] outcome = "rendered" ->
                /\ nextToken <= MaxTokens
                /\ LET filename == NewFile(nextFile)
                       token == NewToken(nextToken)
                       entry == [filename |-> filename,
                                 expires |-> Expiration(now)]
                       base  == IF in_session THEN download_tokens ELSE <<>>
                   IN  /\ files' = files \cup {filename}
                       /\ download_tokens' =
                             [t \in (DOMAIN base) \cup {token} |->
                                  IF t = token THEN entry ELSE base[t]]
                       /\ req' = Moved(q,
                             [Finish(q, "issued",
                                     Response(302, "redirect:download",
                                              <<MsgGenOk>>))
                                 EXCEPT !.token = token,
                                        !.filename = filename])
                /\ in_session' = TRUE
                /\ nextFile' = nextFile + 1
                /\ nextToken' = nextToken + 1
    /\ UNCHANGED <<job, now, ticks, servedCount>>

\* ---- download -----------------------------------------------------------
\* main.py:124-130  valid_tokens = session.get('download_tokens', {}), then
\* the membership test
DlMember(q) ==
    /\ Settled
    /\ q.pc = "dl_member"
    /\ LET valid_tokens == IF in_session THEN download_tokens ELSE <<>>
       IN  IF q.token \in DOMAIN valid_tokens
           THEN req' = Moved(q, [q EXCEPT !.pc = "dl_expiry"])
           ELSE req' = Moved(q, Finish(q, "unknown",
                              DownloadExcept(Abort(403), <<MsgInvalid>>)))
    /\ UNCHANGED <<job, now, ticks, in_session, download_tokens, files, nextToken,
                   nextFile, servedCount>>

\* main.py:133  the expiry test; valid_tokens[token] raises KeyError when the
\* entry has gone since the membership test
DlExpiry(q) ==
    /\ Settled
    /\ q.pc = "dl_expiry"
    /\ IF q.token \notin DOMAIN download_tokens
       THEN req' = Moved(q, Finish(q, "error",
                     DownloadExcept([exc |-> "KeyError", code |-> 0], <<>>)))
       ELSE IF IsExpired(now, download_tokens[q.token])
       THEN req' = Moved(q, [q EXCEPT !.pc = "dl_drop"])
       ELSE req' = Moved(q, [q EXCEPT !.pc = "dl_filename"])
    /\ UNCHANGED <<job, now, ticks, in_session, download_tokens, files, nextToken,
                   nextFile, servedCount>>

\* main.py:134-139  the expired entry is popped and the request aborted
DlDrop(q) ==
    /\ Settled
    /\ q.pc = "dl_drop"
    /\ download_tokens' = Pop(download_tokens, q.token)
    /\ req' = Moved(q, Finish(q, "expired",
                              DownloadExcept(Abort(403), <<MsgExpired>>)))
    /\ UNCHANGED <<job, now, ticks, in_session, files, nextToken, nextFile,
                   servedCount>>

\* main.py:142  filename = valid_tokens[token]['filename']
DlFilename(q) ==
    /\ Settled
    /\ q.pc = "dl_filename"
    /\ IF q.token \notin DOMAIN download_tokens
       THEN req' = Moved(q, Finish(q, "error",
                     DownloadExcept([exc |-> "KeyError", code |-> 0], <<>>)))
       ELSE req' = Moved(q, [q EXCEPT !.pc = "dl_pop",
                       !.filename = download_tokens[q.token].filename])
    /\ UNCHANGED <<job, now, ticks, in_session, download_tokens, files, nextToken,
                   nextFile, servedCount>>

\* a handler that goes on to the file check with the token still in the map
DlPopSkips(q) ==
    /\ Settled
    /\ q.pc = "dl_pop"
    /\ req' = Moved(q, [q EXCEPT !.pc = "dl_exists"])
    /\ UNCHANGED <<job, now, ticks, in_session, download_tokens, files, nextToken,
                   nextFile, servedCount>>

\* main.py:143-144  valid_tokens.pop(token, None)
DlPop(q) ==
    /\ Settled
    /\ q.pc = "dl_pop"
    /\ download_tokens' = Pop(download_tokens, q.token)
    /\ req' = Moved(q, [q EXCEPT !.pc = "dl_exists"])
    /\ UNCHANGED <<job, now, ticks, in_session, files, nextToken, nextFile,
                   servedCount>>

\* main.py:146-151
DlExists(q) ==
    /\ Settled
    /\ q.pc = "dl_exists"
    /\ IF q.filename \in files
       THEN req' = Moved(q, [q EXCEPT !.pc = "dl_send"])
       ELSE req' = Moved(q, Finish(q, "notfound",
                              DownloadExcept(Abort(404), <<MsgNotFound>>)))
    /\ UNCHANGED <<job, now, ticks, in_session, download_tokens, files, nextToken,
                   nextFile, servedCount>>

\* main.py:154-174  the callback is registered, then send_file runs: it
\* opens the file, or raises because the file is gone or cannot be opened
DlSend(q) ==
    /\ Settled
    /\ q.pc = "dl_send"
    /\ IF q.filename \in files
       THEN \E opened \in BOOLEAN :
               IF opened
               THEN /\ req' = Moved(q, [q EXCEPT !.pc = "dl_after",
                                  !.branch = "file",
                                  !.resp = Response(200, "file", <<>>)])
                    /\ servedCount' = [servedCount EXCEPT ![q.token] = @ + 1]
               ELSE /\ req' = Moved(q, [q EXCEPT !.pc = "dl_after",
                                  !.branch = "error",
                                  !.resp = DownloadExcept(
                                      [exc |-> "PermissionError", code |-> 0],
                                      <<>>)])
                    /\ UNCHANGED servedCount
       ELSE /\ req' = Moved(q, [q EXCEPT !.pc = "dl_after", !.branch = "error",
                          !.resp = DownloadExcept(
                              [exc |-> "FileNotFoundError", code |-> 0], <<>>)])
            /\ UNCHANGED servedCount
    /\ UNCHANGED <<job, now, ticks, in_session, download_tokens, files, nextToken,
                   nextFile>>

\* a callback that returns the response without calling delete_file
DlAfterSkips(q) ==
    /\ Settled
    /\ q.pc = "dl_after"
    /\ req' = Moved(q, [q EXCEPT !.pc = "done"])
    /\ UNCHANGED <<job, now, ticks, in_session, download_tokens, files, nextToken,
                   nextFile, servedCount>>

\* main.py:155-164  delete_after_download
DlAfter(q) ==
    /\ Settled
    /\ q.pc = "dl_after"
    /\ \E raises \in BOOLEAN :
        LET d == DeleteFile(files, q.filename, raises)
        IN  /\ files' = d.files
            /\ req' = Moved(q, [q EXCEPT !.pc = "done",
                          !.deleted = IF d.result THEN "true"
                                      ELSE IF q.filename \in files
                                      THEN "raised" ELSE "absent"])
    /\ UNCHANGED <<job, now, ticks, in_session, download_tokens, nextToken,
                   nextFile, servedCount>>

\* The response leaves the server.
Respond(q) ==
    /\ q.pc = "done"
    /\ req' = req (-) SetToBag({q})
    /\ UNCHANGED <<job, now, ticks, in_session, download_tokens, files, nextToken,
                   nextFile, servedCount>>

\* ---- specifications -----------------------------------------------------
\* one step of the handler of request q
Step(q) ==
    \/ Index(q)
    \/ SetTheme(q)
    \/ Health(q)
    \/ Generate(q)
    \/ DlMember(q)
    \/ DlExpiry(q)
    \/ DlDrop(q)
    \/ DlFilename(q)
    \/ DlPop(q)
    \/ DlExists(q)
    \/ DlSend(q)
    \/ DlAfter(q)

Next ==
    \/ Tick
    \/ Arrive
    \/ \E q \in InFlight : Index(q)
    \/ \E q \in InFlight : SetTheme(q)
    \/ \E q \in InFlight : Health(q)
    \/ \E q \in InFlight : Generate(q)
    \/ \E q \in InFlight : DlMember(q)
    \/ \E q \in InFlight : DlExpiry(q)
    \/ \E q \in InFlight : DlDrop(q)
    \/ \E q \in InFlight : DlFilename(q)
    \/ \E q \in InFlight : DlPop(q)
    \/ \E q \in InFlight : DlExists(q)
    \/ \E q \in InFlight : DlSend(q)
    \/ \E q \in InFlight : DlAfter(q)
    \/ \E q \in InFlight : Respond(q)

Spec == Init /\ [][Next]_vars

\* One request at a time: the next one arrives when the previous is answered.
NextSeq ==
    \/ Tick
    \/ ArriveSeq
    \/ \E q \in InFlight : Index(q)
    \/ \E q \in InFlight : SetTheme(q)
    \/ \E q \in InFlight : Health(q)
    \/ \E q \in InFlight : Generate(q)
    \/ \E q \in InFlight : DlMember(q)
    \/ \E q \in InFlight : DlExpiry(q)
    \/ \E q \in InFlight : DlDrop(q)
    \/ \E q \in InFlight : DlFilename(q)
    \/ \E q \in InFlight : DlPop(q)
    \/ \E q \in InFlight : DlExists(q)
    \/ \E q \in InFlight : DlSend(q)
    \/ \E q \in InFlight : DlAfter(q)
    \/ \E q \in InFlight : Respond(q)

SpecSeq == Init /\ [][NextSeq]_vars

\* A handler that has started runs to its response, and the response is
\* delivered; nothing obliges the client to send a request or time to pass.
FairSpecSeq ==
    SpecSeq /\ WF_vars(\E q \in InFlight : Step(q) \/ Respond(q))

\* ---- parameter values ----------------------------------------------------
\* A parameter value is what Python holds for it.  Numbers are kept in units
\* of 1/Scale, so that 0.00056 and 9601 are both exact.
Scale == 100000

IntV(n)     == [ty |-> "int",   x |-> n * Scale, w |-> ""]
FloatV(x)   == [ty |-> "float", x |-> x,         w |-> ""]
NanV        == [ty |-> "nan",   x |-> 0,         w |-> ""]
InfV        == [ty |-> "inf",   x |-> 0,         w |-> ""]
BoolV(b)    == [ty |-> "bool",  x |-> IF b THEN Scale ELSE 0, w |-> ""]
NoneV       == [ty |-> "none",  x |-> 0,         w |-> ""]
\* a string that is an integer literal, a decimal literal, or any other text
StrIntV(n)  == [ty |-> "str_int",   x |-> n * Scale, w |-> ""]
StrDecV(x)  == [ty |-> "str_float", x |-> x,         w |-> ""]
StrV(w)     == [ty |-> "str",       x |-> 0,         w |-> w]

\* config.py:27-41  DEFAULT_PARAMS, in the order of the dictionary
Fields ==
    <<"focal_length", "rings", "punch_diameter", "padding", "magnification",
      "wavelength", "sieve_scale", "sieve_space", "type", "dup_focal",
      "negative_mode", "output_format", "output_resolution">>

FieldSet == {Fields[i] : i \in 1..Len(Fields)}

DEFAULT_PARAMS ==
    [f \in FieldSet |->
        CASE f = "focal_length"      -> IntV(210)
          [] f = "rings"             -> IntV(7)
          [] f = "punch_diameter"    -> FloatV(20 * Scale)
          [] f = "padding"           -> FloatV(10 * Scale)
          [] f = "magnification"     -> FloatV(Scale)
          [] f = "wavelength"        -> FloatV(56)
          [] f = "sieve_scale"       -> FloatV(150000)
          [] f = "sieve_space"       -> FloatV(4000)
          [] f = "type"              -> StrV("PLATE")
          [] f = "dup_focal"         -> IntV(180)
          [] f = "negative_mode"     -> BoolV(FALSE)
          [] f = "output_format"     -> StrV("PNG")
          [] f = "output_resolution" -> IntV(600)]

\* config.py:44-50
VALID_TYPES == {"PLATE", "SIEVE", "PHOTON", "GRID"}
VALID_OUTPUT_FORMATS == {"PNG", "TIFF", "PDF"}

\* ---- float() and int() ------------------------------------------------------
Converted(ty, x) == [exc |-> "none", ty |-> ty, x |-> x]
Raised(exc)      == [exc |-> exc, ty |-> "none", x |-> 0]

\* float(v)
ToFloat(v) ==
    CASE v.ty \in {"int", "float", "bool", "str_int", "str_float"}
                        -> Converted("num", v.x)
      [] v.ty = "nan"   -> Converted("nan", 0)
      [] v.ty = "inf"   -> Converted("inf", 0)
      [] v.ty = "str"   -> Raised("ValueError")
      [] v.ty = "none"  -> Raised("TypeError")

\* the integer part of x / Scale, rounded towards zero
Trunc(x) == IF x >= 0 THEN x \div Scale ELSE -((-x) \div Scale)

\* int(v): a float is truncated, a string must be an integer literal
ToInt(v) ==
    CASE v.ty \in {"int", "bool", "str_int", "float"}
                                       -> Converted("num", Trunc(v.x) * Scale)
      [] v.ty \in {"str", "str_float", "nan"} -> Raised("ValueError")
      [] v.ty = "inf"                  -> Raised("OverflowError")
      [] v.ty = "none"                 -> Raised("TypeError")

\* ---- validate_parameters ------------------------------------------------------
\* params.get(key, default)
Get(params, key, default) ==
    IF key \in DOMAIN params THEN params[key] ELSE default

\* zone_plate.py:78-83, 92-104  a float that must be positive:
\* "" when the block adds no error
PositiveFloatError(params, key, label) ==
    LET c == ToFloat(Get(params, key, IntV(0)))
    IN  CASE c.exc # "none"          -> label \o " must be a valid number"
          [] c.ty = "num" /\ c.x <= 0 -> label \o " must be positive"
          [] OTHER                   -> ""

\* zone_plate.py:85-90
RingsError(params) ==
    LET c == ToInt(Get(params, "rings", IntV(0)))
    IN  CASE c.exc = "OverflowError" -> "raise"
          [] c.exc # "none"          -> "Number of rings must be a valid integer"
          [] c.x <= 0 \/ c.x > 50 * Scale
                                     -> "Number of rings must be between 1 and 50"
          [] OTHER                   -> ""

\* zone_plate.py:106-111
ResolutionError(params) ==
    LET c == ToInt(Get(params, "output_resolution", IntV(300)))
    IN  CASE c.exc = "OverflowError" -> "raise"
          [] c.exc # "none"          -> "Resolution must be a valid integer"
          [] c.x <= 299 * Scale \/ c.x > 9600 * Scale
                                     -> "Resolution must be between 300 and 9600 DPI"
          [] OTHER                   -> ""

\* zone_plate.py:113-117  membership of the value itself in the allowed set
EnumError(params, key, allowed, message) ==
    LET v == Get(params, key, NoneV)
    IN  IF v.ty = "str" /\ v.w \in allowed THEN "" ELSE message

\* what each block of validate_parameters adds for its key
BlockError(params, key) ==
    CASE key = "focal_length"   -> PositiveFloatError(params, key, "Focal length")
      [] key = "rings"          -> RingsError(params)
      [] key = "punch_diameter" -> PositiveFloatError(params, key, "Punch diameter")
      [] key = "wavelength"     -> PositiveFloatError(params, key, "Wavelength")
      [] key = "output_resolution" -> ResolutionError(params)
      [] key = "type"           -> EnumError(params, key, VALID_TYPES,
                                       "Type must be one of: PLATE, SIEVE, PHOTON, GRID")
      [] key = "output_format"  -> EnumError(params, key, VALID_OUTPUT_FORMATS,
                                       "Output format must be one of: PNG, TIFF, PDF")

\* the keys validate_parameters has a block for
CheckedFields ==
    {"focal_length", "rings", "punch_diameter", "wavelength",
     "output_resolution", "type", "output_format"}

\* validate_parameters: the errors dictionary, or the exception that the
\* clauses `except (ValueError, TypeError)` let through
ValidateParameters(params) ==
    LET found == {k \in CheckedFields : BlockError(params, k) # ""}
    IN  IF \E k \in found : BlockError(params, k) = "raise"
        THEN [raised |-> TRUE, errors |-> <<>>]
        ELSE [raised |-> FALSE,
              errors |-> [k \in found |-> BlockError(params, k)]]

\* ---- validate_parameters called with any mapping -----------------------------
\* the values a caller may put in a field
SampleValues ==
    {IntV(-1), IntV(0), IntV(1), IntV(50), IntV(51), IntV(299), IntV(300),
     IntV(9600), IntV(9601),
     FloatV(-Scale), FloatV(0), FloatV(50000), FloatV(750000), FloatV(5090000),
     NanV, InfV, NoneV, BoolV(TRUE),
     StrIntV(7), StrIntV(100), StrDecV(750000), StrV("abc"),
     StrV("PLATE"), StrV("plate"), StrV("SIEVE"), StrV("PNG"), StrV("TIFF"),
     StrV("GIF")}

\* the mapping without the key
Without(params, key) == [k \in (DOMAIN params) \ {key} |-> params[k]]

\* the mappings that differ from DEFAULT_PARAMS in at most n fields
RECURSIVE ParamSets(_)
ParamSets(n) ==
    IF n = 0 THEN {DEFAULT_PARAMS}
    ELSE LET prev == ParamSets(n - 1)
         IN  prev
             \cup {[p EXCEPT ![f] = v] :
                      <<p, f, v>> \in {<<p, f, v>> \in prev \X FieldSet \X SampleValues :
                                          f \in DOMAIN p}}
             \cup {Without(p, f) :
                      <<p, f>> \in {<<p, f>> \in prev \X FieldSet : f \in DOMAIN p}}

ValidateInputs == ParamSets(MaxChanged)

\* a caller hands a mapping to validate_parameters and gets the result
CallValidate ==
    /\ job.pc = "idle"
    /\ \E params \in ValidateInputs :
          LET r == ValidateParameters(params)
          IN  job' = [pc |-> "validated", params |-> params,
                      raised |-> r.raised, errors |-> r.errors]
    /\ UNCHANGED <<now, ticks, in_session, download_tokens, files, nextToken,
                   nextFile, req, servedCount>>

ReturnValidate ==
    /\ job.pc = "validated"
    /\ job' = NoJob
    /\ UNCHANGED <<now, ticks, in_session, download_tokens, files, nextToken,
                   nextFile, req, servedCount>>

NextValidate ==
    \/ CallValidate
    \/ ReturnValidate

SpecValidate == Init /\ [][NextValidate]_vars

\* ---- the claims ---------------------------------------------------------
Done(q) == q.pc = "done"

DoneDownload(q) == Done(q) /\ q.kind = "download"

\* what the caller sees of a response: the status and the flashed messages
Observable(resp) == [status |-> resp.status, flashes |-> resp.flashes]

\* this step took request q from position pc1 to position pc2
Took(q, pc1, pc2) ==
    /\ q.pc = pc1
    /\ \E q2 \in BagToSet(req') : q2.pc = pc2 /\ req' = Moved(q, q2)

\* this step was the arrival of a request
Arrived == BagCardinality(req') > BagCardinality(req)

\* C1 (under SpecSeq, requests one after the other): no token has its file
\* sent more than once, and a download that carries a token whose file was
\* already sent is denied through the unknown-token branch.
C1_AtMostOnceSequential ==
    /\ \A t \in TokenIds : servedCount[t] <= 1
    /\ \A q \in InFlight :
         (DoneDownload(q) /\ q.token \in TokenIds /\ q.branch # "file"
            /\ servedCount[q.token] >= 1)
         => q.branch = "unknown"

C1_Witness ==
    \E q \in InFlight : /\ DoneDownload(q)
                        /\ q.token \in TokenIds
                        /\ servedCount[q.token] = 1
                        /\ q.branch = "unknown"

\* C2 (concurrent requests): of the download requests that carry the same
\* token at most one is answered with the file.  The code violates it: two
\* requests can both read the entry (lines 127-142) before either pops it.
C2_ConcurrentConsumeOnce ==
    \A t \in TokenIds : servedCount[t] <= 1

\* C3: a token that was stored and is no longer in the map is never in the
\* map again, and an entry leaves the map only because it has expired or
\* because a download consumes it.
C3_RemovedStaysRemoved ==
    [][ /\ \A t \in TokenIds :
              (t < nextToken /\ t \notin DOMAIN download_tokens)
              => t \notin DOMAIN download_tokens'
        /\ \A t \in DOMAIN download_tokens :
              t \notin DOMAIN download_tokens'
              => \/ IsExpired(now, download_tokens[t])
                 \/ \E q \in InFlight : /\ q.token = t
                                        /\ Took(q, "dl_pop", "dl_exists") ]_vars

C3_Witness ==
    \E t \in TokenIds : /\ t < nextToken
                        /\ t \notin DOMAIN download_tokens
                        /\ nextToken <= MaxTokens

\* C4 as stated: a download whose token is in the map but expired when the
\* request arrives ends in the Expired branch, with the entry gone and
\* delete_file not called.
C4_ExpiredOutcome ==
    \A q \in InFlight :
        (DoneDownload(q) /\ q.expiredAtStart)
        => /\ q.branch = "expired"
           /\ q.token \notin DOMAIN download_tokens
           /\ q.deleted = "none"

\* C4 as amended: such a download is denied through the unknown-token
\* branch, because the sweep of the same request has removed the entry; the
\* Expired branch is taken only for a token that was not yet expired when
\* the request arrived.  Either way the entry is gone when the request ends
\* and delete_file has not been called.
C4_ExpiredDenied ==
    \A q \in InFlight :
        DoneDownload(q)
        => /\ q.expiredAtStart
              => /\ q.branch = "unknown"
                 /\ q.token \notin DOMAIN download_tokens
                 /\ q.deleted = "none"
           /\ q.branch = "expired"
              => /\ ~q.expiredAtStart
                 /\ q.token \notin DOMAIN download_tokens
                 /\ q.deleted = "none"

C4_Witness ==
    \E q \in InFlight : /\ DoneDownload(q)
                        /\ q.expiredAtStart
                        /\ q.resp.flashes = <<MsgInvalid, MsgDlError>>

\* C5: a download denied for an unknown or expired token is answered with
\* status 403, one whose file is missing with 404, and none of them with a
\* redirect or with the file.
C5_DenialStatus ==
    \A q \in InFlight :
        DoneDownload(q)
        => /\ q.branch \in {"unknown", "expired"} => q.resp.status = 403
           /\ q.branch = "notfound" => q.resp.status = 404
           /\ q.branch \in {"unknown", "expired", "notfound"}
              => q.resp.body \notin {"redirect:index", "file"}

\* C6: a download denied because its token has expired shows the caller
\* what a download with a token that was never issued shows: the same status
\* and the same messages.
C6_NoEnumerationLeak ==
    \A q \in InFlight :
        (DoneDownload(q) /\ q.branch \in {"unknown", "expired"})
        => Observable(q.resp)
             = Observable(DownloadExcept(Abort(403), <<MsgInvalid>>))

\* C7: an entry is stored with expires = time of issue + 300 and never
\* changes while it is in the map; the expiry test lets a request through
\* only at a time <= expires, and at the time expires itself it does let it
\* through.
C7_ExpiryWindow ==
    [][ /\ \A t \in (DOMAIN download_tokens') \ (DOMAIN download_tokens) :
              download_tokens'[t].expires = now + 300
        /\ \A t \in (DOMAIN download_tokens') \cap (DOMAIN download_tokens) :
              download_tokens'[t] = download_tokens[t]
        /\ \A q \in InFlight :
              Took(q, "dl_expiry", "dl_filename")
              => /\ q.token \in DOMAIN download_tokens
                 /\ now <= download_tokens[q.token].expires
        /\ \A q \in InFlight :
              (/\ q.token \in DOMAIN download_tokens
               /\ now = download_tokens[q.token].expires)
              => ~Took(q, "dl_expiry", "dl_drop") ]_vars

C7_Witness ==
    \E q \in InFlight : /\ q.pc = "dl_filename"
                        /\ q.token \in DOMAIN download_tokens
                        /\ now = download_tokens[q.token].expires

\* the steps in which cleanup_expired_tokens runs
SweepStep ==
    \/ Arrived
    \/ \E q \in InFlight : Took(q, "health", "done")

\* C8: a sweep at time now leaves exactly the entries with expires >= now,
\* each unchanged, and a second sweep at the same time changes nothing.
C8_SweepExact ==
    [][ SweepStep
        => LET kept == {t \in DOMAIN download_tokens :
                           ~(download_tokens[t].expires < now)}
           IN  /\ DOMAIN download_tokens' = kept
               /\ \A t \in kept : download_tokens'[t] = download_tokens[t]
               /\ Cleanup(download_tokens', now) = download_tokens' ]_vars

C8_Witness ==
    \E q \in InFlight :
        /\ q.pc = "dl_member"
        /\ q.expiredAtStart
        /\ q.token \notin DOMAIN download_tokens
        /\ \E t \in DOMAIN download_tokens : download_tokens[t].expires >= now

\* C9: a request of any of the five routes enters its handler only from the
\* arrival step, in which the sweep runs, and at that moment the map holds
\* no expired entry.
C9_SweepPrecedesHandler ==
    [][ \A q2 \in BagToSet(req') :
          (/\ q2.kind \in Kinds
           /\ q2.pc = Entry(q2.kind)
           /\ CopiesIn(q2, req') > CopiesIn(q2, req))
          => /\ Arrived
             /\ \A t \in DOMAIN download_tokens' :
                   ~(download_tokens'[t].expires < now) ]_vars

C9_Witness ==
    \E q \in InFlight :
        /\ q.kind \in {"index", "generate", "set_theme", "health"}
        /\ q.pc = Entry(q.kind)
        /\ nextToken > 1
        /\ \A t \in TokenIds : t < nextToken => t \notin DOMAIN download_tokens
        /\ \A t \in TokenIds : servedCount[t] = 0
        /\ \A p \in InFlight : p.kind # "download"

C11_DeleteOnConsume ==
    [][ /\ \A q \in InFlight :
              Took(q, "dl_filename", "dl_pop")
              => \E q2 \in BagToSet(req') :
                    /\ req' = Moved(q, q2)
                    /\ q.token \in DOMAIN download_tokens
                    /\ q2.filename = download_tokens[q.token].filename
        /\ \A q \in InFlight :
              (Took(q, "dl_after", "done") /\ q.branch = "file")
              => \E q2 \in BagToSet(req') :
                    /\ req' = Moved(q, q2)
                    /\ q.deleted = "none"
                    /\ q2.deleted \in {"true", "raised", "absent"}
                    /\ q2.filename = q.filename
                    /\ files' \in {files, files \ {q.filename}}
                    /\ q2.deleted = "true" => q.filename \notin files'
                    /\ q.token \notin DOMAIN download_tokens'
        /\ \A q2 \in BagToSet(req') :
              (q2.deleted # "none" /\ CopiesIn(q2, req') > CopiesIn(q2, req))
              => \E q \in InFlight : /\ q.pc = "dl_after"
                                     /\ q.deleted = "none"
                                     /\ req' = Moved(q, q2) ]_vars

C11_Witness ==
    \E q \in InFlight : /\ DoneDownload(q)
                        /\ q.branch = "file"
                        /\ q.deleted = "true"
                        /\ servedCount[q.token] = 1
                        /\ q.token \notin DOMAIN download_tokens

\* ---- the form of /generate ------------------------------------------------
\* the strings a client may send in a form field
FormStrings ==
    {StrIntV(7), StrIntV(100), StrDecV(750000), StrV("on"), StrV("GIF")}

\* the forms that set at most n fields; the other fields are absent
RECURSIVE Forms(_)
Forms(n) ==
    IF n = 0 THEN {<<>>}
    ELSE LET prev == Forms(n - 1)
         IN  prev \cup
             {[k \in (DOMAIN form) \cup {f} |-> IF k = f THEN v ELSE form[k]] :
                 <<form, f, v>> \in {<<form, f, v>> \in prev \X FieldSet \X FormStrings :
                                        f \notin DOMAIN form}}

FormInputs == Forms(MaxChanged)

\* main.py:46-66  the converter of the key, applied to a string of the form
Convert(key, s) ==
    CASE key \in {"punch_diameter", "padding", "wavelength", "sieve_scale",
                  "sieve_space"} ->
            IF s.ty \in {"str_int", "str_float"}
            THEN [exc |-> "none", value |-> FloatV(s.x)]
            ELSE [exc |-> "ValueError", value |-> NoneV]
      [] key \in {"rings", "focal_length", "magnification", "dup_focal",
                  "output_resolution"} ->
            IF s.ty = "str_int"
            THEN [exc |-> "none", value |-> IntV(s.x \div Scale)]
            ELSE [exc |-> "ValueError", value |-> NoneV]
      [] key = "negative_mode" ->
            [exc |-> "none",
             value |-> IF \/ s.ty = "str" /\ s.w \in {"true", "on", "yes"}
                          \/ s.ty = "str_int" /\ s.x = Scale
                       THEN StrV("true") ELSE DEFAULT_PARAMS[key]]
      [] OTHER -> [exc |-> "none", value |-> s]

\* main.py:42-71  params built from the form and the defaults
ExtractParams(form) ==
    IF \E k \in DOMAIN form : Convert(k, form[k]).exc # "none"
    THEN [raised |-> TRUE, params |-> <<>>]
    ELSE [raised |-> FALSE,
          params |-> [k \in FieldSet |->
                         IF k \in DOMAIN form THEN Convert(k, form[k]).value
                         ELSE DEFAULT_PARAMS[k]]]

\* ---- one call of the render pipeline ----------------------------------------
\* the parameter sets a caller hands to generate_image directly
DirectInputs ==
    {DEFAULT_PARAMS,
     [DEFAULT_PARAMS EXCEPT !["rings"] = IntV(100)],
     [DEFAULT_PARAMS EXCEPT !["output_format"] = StrV("TIFF")]}

\* generate_image of models/zone_plate.py, and its predecessor in app.py
Impls == {"package", "legacy"}

\* a call that has just been made
NewJob(via, impl, params) ==
    [pc |-> "start", via |-> via, impl |-> impl, params |-> params,
     form |-> <<>>,            \* request.form, of a call made by the route
     errors |-> <<>>,
     gi_calls |-> 0,           \* calls of generate_image
     temp_args_file |-> FALSE, \* the local variable names the document
     temp |-> "none",          \* the document on disk: none, written, partial, deleted
     renderer |-> "none",      \* the child process: none, running, exited, killed
     returncode |-> 0,
     output |-> "missing",     \* the declared output file: missing, empty, full
     output_file |-> 0,
     result |-> "pending",     \* of generate_image: pending, None, path, raised
     token |-> 0,
     stored |-> FALSE,         \* the handler has written into the token map
     resp |-> NoResponse]

\* ids are left for one more artifact and one more token
IdsLeft == nextFile <= MaxTokens /\ nextToken <= MaxTokens

\* the response of /generate is ready
Reply(j, resp) == [j EXCEPT !.pc = "done", !.resp = resp]

\* POST /generate arrives: the sweep of before_request, then lines 40-71
PostGenerate ==
    /\ job.pc = "idle"
    /\ IdsLeft
    /\ download_tokens' = IF in_session THEN Cleanup(download_tokens, now)
                          ELSE download_tokens
    /\ \E form \in FormInputs :
          LET e == ExtractParams(form)
          IN  IF e.raised
              THEN job' = Reply([NewJob("http", "package", <<>>)
                                    EXCEPT !.form = form],
                                Response(302, "redirect:index", <<MsgGenError>>))
              ELSE job' = [NewJob("http", "package", e.params)
                              EXCEPT !.pc = "gen_validate", !.form = form]
    /\ UNCHANGED <<now, ticks, in_session, files, nextToken, nextFile, req,
                   servedCount>>

\* a route that calls generate_image whatever the validator returned
GenValidateSkips ==
    /\ job.pc = "gen_validate"
    /\ job' = [job EXCEPT !.pc = "gi_validate", !.gi_calls = @ + 1]
    /\ UNCHANGED <<now, ticks, in_session, download_tokens, files, nextToken,
                   nextFile, req, servedCount>>

\* main.py:76-83
GenValidate ==
    /\ job.pc = "gen_validate"
    /\ LET v == ValidateParameters(job.params)
       IN  IF v.raised
           THEN job' = Reply(job, Response(302, "redirect:index", <<MsgGenError>>))
           ELSE IF DOMAIN v.errors # {}
           THEN job' = Reply([job EXCEPT !.errors = v.errors],
                             Response(400, "json:errors", <<>>))
           ELSE job' = [job EXCEPT !.pc = "gi_validate", !.gi_calls = @ + 1]
    /\ UNCHANGED <<now, ticks, in_session, download_tokens, files, nextToken,
                   nextFile, req, servedCount>>

\* a caller other than the route calls generate_image(params)
CallGenerateImage ==
    /\ job.pc = "idle"
    /\ IdsLeft
    /\ \E params \in DirectInputs, impl \in Impls :
          job' = [NewJob("direct", impl, params)
                     EXCEPT !.pc = "gi_validate", !.gi_calls = 1]
    /\ UNCHANGED <<now, ticks, in_session, download_tokens, files, nextToken,
                   nextFile, req, servedCount>>

\* generate_image has returned r: the route goes on, a direct caller has
\* its answer
Return(j, r) ==
    [j EXCEPT !.result = r,
              !.pc = IF j.via = "http" THEN "gen_store" ELSE "returned"]

\* the try block of generate_image is left with r: the package runs its
\* finally clause, app.py has none
Leave(j, r) ==
    IF j.impl = "package" THEN [j EXCEPT !.result = r, !.pc = "gi_finally"]
    ELSE Return(j, r)

\* zone_plate.py:153-156, app.py:211-214  validation, before the try block
GiValidate ==
    /\ job.pc = "gi_validate"
    /\ LET v == ValidateParameters(job.params)
       IN  IF v.raised THEN job' = Return(job, "raised")
           ELSE IF DOMAIN v.errors # {}
           THEN job' = Return([job EXCEPT !.errors = v.errors], "None")
           ELSE job' = [job EXCEPT !.pc = "gi_temp"]
    /\ UNCHANGED <<now, ticks, in_session, download_tokens, files, nextToken,
                   nextFile, req, servedCount>>

\* zone_plate.py:160-167 with create_temp_args_file, app.py:216-226.  The
\* document is written; or an exception is raised before the file is opened
\* (the template cannot be read); or while it is written, when the file is
\* on disk and no variable names it.
GiTemp ==
    /\ job.pc = "gi_temp"
    /\ \E outcome \in {"written", "unreadable", "partial"} :
          CASE outcome = "written" ->
                  job' = [job EXCEPT !.pc = "gi_spawn", !.temp = "written",
                                     !.temp_args_file = TRUE]
            [] outcome = "unreadable" ->
                  job' = Leave(job, "None")
            [] outcome = "partial" ->
                  job' = Leave([job EXCEPT !.temp = "partial"], "None")
    /\ UNCHANGED <<now, ticks, in_session, download_tokens, files, nextToken,
                   nextFile, req, servedCount>>

\* zone_plate.py:169-221, app.py:228-264  subprocess.run starts the child, or
\* raises OSError because the renderer cannot be started
GiSpawn ==
    /\ job.pc = "gi_spawn"
    /\ \E started \in BOOLEAN :
          IF started
          THEN job' = [job EXCEPT !.pc = "gi_wait", !.renderer = "running",
                                  !.output_file = NewFile(nextFile)]
          ELSE job' = Leave(job, "None")
    /\ UNCHANGED <<now, ticks, in_session, download_tokens, files, nextToken,
                   nextFile, req, servedCount>>

\* The renderer exits, with a return code and with or without an output
\* file; subprocess.run returns.
RendererExits ==
    /\ job.pc = "gi_wait"
    /\ \E code \in {0, 1}, out \in {"missing", "empty", "full"} :
          /\ job' = [job EXCEPT !.renderer = "exited", !.returncode = code,
                                !.output = out,
                                !.pc = IF job.impl = "package" THEN "gi_check"
                                       ELSE "gi_unlink"]
          /\ files' = IF out = "missing" THEN files
                      ELSE files \cup {job.output_file}
          /\ nextFile' = IF out = "missing" THEN nextFile ELSE nextFile + 1
    /\ UNCHANGED <<now, ticks, in_session, download_tokens, nextToken, req,
                   servedCount>>

\* app.py:263  timeout=120: subprocess.run kills the child and raises
\* TimeoutExpired, which the clause `except Exception` answers with None.
\* subprocess.run of zone_plate.py:214-221 is given no timeout.
GiTimeout ==
    /\ job.pc = "gi_wait"
    /\ job.impl = "legacy"
    /\ job' = Return([job EXCEPT !.renderer = "killed"], "None")
    /\ UNCHANGED <<now, ticks, in_session, download_tokens, files, nextToken,
                   nextFile, req, servedCount>>

\* app.py:267  os.unlink(temp_ps_path), inside the try block
GiUnlink ==
    /\ job.pc = "gi_unlink"
    /\ \E raises \in BOOLEAN :
          IF raises THEN job' = Return(job, "None")
          ELSE job' = [job EXCEPT !.temp = "deleted", !.pc = "gi_check"]
    /\ UNCHANGED <<now, ticks, in_session, download_tokens, files, nextToken,
                   nextFile, req, servedCount>>

\* a check that does not look at the return code
CheckOutputIgnoresCode(returncode, output) ==
    IF output = "missing" THEN "None" ELSE "path"

\* zone_plate.py:237-251, app.py:269-278  the return code, then
\* output_file.exists(); the size of the file is logged, not tested
CheckOutput(returncode, output) ==
    IF returncode # 0 THEN "None"
    ELSE IF output = "missing" THEN "None"
    ELSE "path"

GiCheck ==
    /\ job.pc = "gi_check"
    /\ job' = Leave(job, CheckOutput(job.returncode, job.output))
    /\ UNCHANGED <<now, ticks, in_session, download_tokens, files, nextToken,
                   nextFile, req, servedCount>>

\* zone_plate.py:259-268  the finally clause; raises: os.unlink raised
Finally(j, raises) ==
    IF j.temp_args_file /\ j.temp = "written" /\ ~raises
    THEN [j EXCEPT !.temp = "deleted"]
    ELSE j

GiFinally ==
    /\ job.pc = "gi_finally"
    /\ \E raises \in BOOLEAN :
          job' = Return(Finally(job, raises), job.result)
    /\ UNCHANGED <<now, ticks, in_session, download_tokens, files, nextToken,
                   nextFile, req, servedCount>>

\* a handler that stores a token whatever generate_image returned
StoresTokenAlways(result) == TRUE

\* main.py:84  if output_file:
StoresToken(result) == result = "path"

\* main.py:84-113  the route after generate_image has returned
GenStore ==
    /\ job.pc = "gen_store"
    /\ IF job.result = "raised"
       THEN /\ job' = Reply(job, Response(302, "redirect:index", <<MsgGenError>>))
            /\ UNCHANGED <<in_session, download_tokens, nextToken>>
       ELSE IF StoresToken(job.result)
       THEN LET token == NewToken(nextToken)
                entry == [filename |-> job.output_file,
                          expires |-> Expiration(now)]
                base  == IF in_session THEN download_tokens ELSE <<>>
            IN  /\ download_tokens' =
                      [t \in (DOMAIN base) \cup {token} |->
                           IF t = token THEN entry ELSE base[t]]
                /\ in_session' = TRUE
                /\ nextToken' = nextToken + 1
                /\ job' = Reply([job EXCEPT !.token = token, !.stored = TRUE],
                                Response(302, "redirect:download", <<MsgGenOk>>))
       ELSE /\ job' = Reply(job, Response(302, "redirect:index", <<MsgGenFail>>))
            /\ UNCHANGED <<in_session, download_tokens, nextToken>>
    /\ UNCHANGED <<now, ticks, files, nextFile, req, servedCount>>

\* the response is sent, or the direct caller goes on
JobEnds ==
    /\ job.pc \in {"done", "returned"}
    /\ job' = NoJob
    /\ UNCHANGED <<now, ticks, in_session, download_tokens, files, nextToken,
                   nextFile, req, servedCount>>

\* the steps of the pipeline that the program takes by itself
PipelineStep ==
    \/ GenValidate
    \/ GiValidate
    \/ GiTemp
    \/ GiSpawn
    \/ GiTimeout
    \/ GiUnlink
    \/ GiCheck
    \/ GiFinally
    \/ GenStore

\* Time passes between calls and while the child runs: the wait for the
\* child is the only step of the pipeline that blocks.
TickGen ==
    /\ job.pc \in {"idle", "gi_wait"}
    /\ Tick

NextGen ==
    \/ TickGen
    \/ PostGenerate
    \/ CallGenerateImage
    \/ GenValidate
    \/ GiValidate
    \/ GiTemp
    \/ GiSpawn
    \/ RendererExits
    \/ GiTimeout
    \/ GiUnlink
    \/ GiCheck
    \/ GiFinally
    \/ GenStore
    \/ JobEnds

\* One call of the pipeline at a time.
SpecGen == Init /\ [][NextGen]_vars

\* The program takes its own steps; nothing obliges the renderer to exit, a
\* client to send a request or a caller to call.
FairSpecGen == SpecGen /\ WF_vars(PipelineStep)

\* ---- the argument document of the renderer ----------------------------------
\* str(value)
Str(v) ==
    CASE v.ty = "int"   -> [v EXCEPT !.ty = "str_int"]
      [] v.ty = "float" -> [v EXCEPT !.ty = "str_float"]
      [] v.ty = "bool"  -> StrV(IF v.x # 0 THEN "True" ELSE "False")
      [] v.ty = "none"  -> StrV("None")
      [] v.ty = "nan"   -> StrV("nan")
      [] v.ty = "inf"   -> StrV("inf")
      [] OTHER          -> v

\* text.lower(); the other texts of the model are in lower case already
Lower(t) ==
    IF t.ty # "str" THEN t
    ELSE StrV(CASE t.w = "True"  -> "true"
                [] t.w = "False" -> "false"
                [] t.w = "None"  -> "none"
                [] OTHER         -> t.w)

\* zone_plate.py:63-64  the token of a key in the template: {{key}}
Ph(key) == StrV("{{" \o key \o "}}")

Placeholders == {Ph(k) : k \in FieldSet}

\* A text is a sequence of segments; a segment is a placeholder token or a
\* piece of text without one.  The template of the argument document: a
\* header and one placeholder for each field.
TEMPLATE == <<StrV("%!PS")>> \o [i \in 1..Len(Fields) |-> Ph(Fields[i])]

\* zone_plate.py:64-65  pattern.sub(str(value), template_content): every
\* occurrence of the token of the key, in the text as it is now
Sub(content, key, value) ==
    [i \in 1..Len(content) |->
        IF content[i] = Ph(key) THEN Str(value) ELSE content[i]]

\* app.py:190-202  the lines create_postscript_content rewrites, in the order
\* of the replacements dictionary
LegacyKeys ==
    <<"focal_length", "rings", "punch_diameter", "padding", "magnification",
      "wavelength", "sieve_scale", "sieve_space", "type", "dup_focal",
      "negative_mode">>

\* app.py:190-207  the value written on the line of each key
CreatePostscriptContent(params) ==
    [i \in 1..Len(LegacyKeys) |->
        IF LegacyKeys[i] = "negative_mode"
        THEN Lower(Str(params[LegacyKeys[i]]))
        ELSE Str(params[LegacyKeys[i]])]

\* validate_parameters returns no error for the mapping
Valid(params) ==
    LET v == ValidateParameters(params)
    IN  ~v.raised /\ DOMAIN v.errors = {}

\* the keys of the mapping in the order of DEFAULT_PARAMS, and in the
\* opposite order: params.items() follows the order of insertion
KeysOf(params) == SelectSeq(Fields, LAMBDA k : k \in DOMAIN params)
Reverse(seq) == [i \in 1..Len(seq) |-> seq[Len(seq) + 1 - i]]
Orders(params) == {KeysOf(params), Reverse(KeysOf(params))}

\* the mappings callers of generate_image hand over, besides the route
DirectDocuments ==
    {DEFAULT_PARAMS,
     Without(DEFAULT_PARAMS, "padding"),
     [DEFAULT_PARAMS EXCEPT !["padding"] = Ph("wavelength")],
     [DEFAULT_PARAMS EXCEPT !["negative_mode"] = BoolV(TRUE)]}

\* The calls generate_image makes once validation has passed
\* (zone_plate.py:153-167, app.py:211-217): from the route with the mapping
\* of main.py:42-71, and from other callers.
MaterializeInputs ==
    {[via |-> "route", impl |-> "package", form |-> form,
      params |-> ExtractParams(form).params, order |-> Fields] :
        form \in {f \in FormInputs : /\ ~ExtractParams(f).raised
                                     /\ Valid(ExtractParams(f).params)}}
    \cup
    {[via |-> "direct", impl |-> c[1], form |-> <<>>, params |-> c[2],
      order |-> c[3]] :
        c \in {c \in Impls \X DirectDocuments \X
                        UNION {Orders(d) : d \in DirectDocuments} :
                 /\ Valid(c[2])
                 /\ c[3] \in Orders(c[2])
                 /\ c[1] = "legacy" => c[3] = KeysOf(c[2])}}

\* zone_plate.py:46-59  create_temp_args_file is called and has read the
\* template; app.py:184-188 likewise
CreateTempArgsFile ==
    /\ job.pc = "idle"
    /\ \E c \in MaterializeInputs :
          job' = [pc |-> IF c.impl = "package" THEN "substitute" ELSE "replace",
                  via |-> c.via, impl |-> c.impl, form |-> c.form,
                  params |-> c.params, order |-> c.order, i |-> 1,
                  content |-> TEMPLATE, temp |-> "none"]
    /\ UNCHANGED <<now, ticks, in_session, download_tokens, files, nextToken,
                   nextFile, req, servedCount>>

\* zone_plate.py:62-65  one turn of the loop over params.items()
SubstituteKey ==
    /\ job.pc = "substitute"
    /\ job.i <= Len(job.order)
    /\ job' = [job EXCEPT !.content = Sub(@, job.order[job.i],
                                          job.params[job.order[job.i]]),
                          !.i = @ + 1]
    /\ UNCHANGED <<now, ticks, in_session, download_tokens, files, nextToken,
                   nextFile, req, servedCount>>

\* zone_plate.py:67-72  the loop is over: the text is written to the
\* temporary file, whose path generate_image hands to the renderer
WriteTempFile ==
    /\ job.pc = "substitute"
    /\ job.i > Len(job.order)
    /\ job' = [job EXCEPT !.pc = "written", !.temp = "written"]
    /\ UNCHANGED <<now, ticks, in_session, download_tokens, files, nextToken,
                   nextFile, req, servedCount>>

\* app.py:184-226  create_postscript_content builds the text, or
\* params[key] raises KeyError and no file is written
ReplaceLines ==
    /\ job.pc = "replace"
    /\ IF \A i \in 1..Len(LegacyKeys) : LegacyKeys[i] \in DOMAIN job.params
       THEN job' = [job EXCEPT !.pc = "written", !.temp = "written",
                               !.content = CreatePostscriptContent(job.params)]
       ELSE job' = [job EXCEPT !.pc = "failed"]
    /\ UNCHANGED <<now, ticks, in_session, download_tokens, files, nextToken,
                   nextFile, req, servedCount>>

\* the call is over
DocumentDone ==
    /\ job.pc \in {"written", "failed"}
    /\ job' = NoJob
    /\ UNCHANGED <<now, ticks, in_session, download_tokens, files, nextToken,
                   nextFile, req, servedCount>>

NextMaterialize ==
    \/ CreateTempArgsFile
    \/ SubstituteKey
    \/ WriteTempFile
    \/ ReplaceLines
    \/ DocumentDone

SpecMaterialize == Init /\ [][NextMaterialize]_vars

\* ---- the output directory ---------------------------------------------------
\* A path is the sequence of its components below the root; a filename is
\* a sequence of components too, and "/" in front makes it absolute.
OUTPUT_DIR == <<"app", "output">>

\* the filename of a call with None for the name
NoFilename == <<>>

\* pathlib's dir / filename: an absolute right operand replaces the left one
Join(dir, filename) ==
    IF filename # <<>> /\ filename[1] = "/" THEN Tail(filename)
    ELSE dir \o filename

\* the file the operating system reaches through the path: ".." steps to
\* the parent
RECURSIVE Resolve(_)
Resolve(path) ==
    IF path = <<>> THEN <<>>
    ELSE LET r == Resolve(SubSeq(path, 1, Len(path) - 1))
             c == path[Len(path)]
         IN  IF c # ".." THEN Append(r, c)
             ELSE IF r = <<>> THEN <<>>
             ELSE SubSeq(r, 1, Len(r) - 1)

\* zone_plate.py:131, main.py:146  file_path = output_dir / filename
FilePath(filename) == Resolve(Join(OUTPUT_DIR, filename))

\* names of artifacts (main.py:91: Path(output_file).name)
Names == {"a.png", "b.png"}

\* the filenames a caller hands to delete_file
StoreFilenames ==
    UNION {{<<n>>, <<"..", n>>, <<"sub", n>>, <<"/", "etc", n>>} : n \in Names}

\* where a file may be on the disk
DiskPaths == {FilePath(f) : f \in StoreFilenames}

\* the disk is empty and no call has been made
StoreJob ==
    [pc |-> "ready", fs |-> {}, op |-> "none", filename |-> NoFilename,
     file_path |-> <<>>, existed |-> FALSE, touched |-> FALSE,
     raises |-> FALSE, result |-> FALSE, repeat |-> FALSE]

InitStore ==
    /\ now = 0
    /\ ticks = 0
    /\ in_session = FALSE
    /\ download_tokens = <<>>
    /\ files = {}
    /\ nextToken = 1
    /\ nextFile = 1
    /\ req = EmptyBag
    /\ servedCount = [t \in TokenIds |-> 0]
    /\ job = StoreJob

\* a file comes into being: the renderer writes an artifact, or another
\* program writes elsewhere
SaveFile ==
    /\ job.pc = "ready"
    /\ \E path \in DiskPaths \ job.fs :
          job' = [StoreJob EXCEPT !.fs = job.fs \cup {path}]
    /\ UNCHANGED <<now, ticks, in_session, download_tokens, files, nextToken,
                   nextFile, req, servedCount>>

\* zone_plate.py:121-141  delete_file(filename); with None for the name the
\* join raises TypeError, which the except clause turns into False
CallDeleteFile ==
    /\ job.pc = "ready"
    /\ \E filename \in StoreFilenames \cup {NoFilename}, raises \in BOOLEAN :
          IF filename = NoFilename
          THEN job' = [StoreJob EXCEPT !.fs = job.fs, !.pc = "called",
                                       !.op = "delete_file"]
          ELSE LET file_path == FilePath(filename)
                   d == DeleteFile(job.fs, file_path, raises)
               IN  job' = [pc |-> "called", fs |-> d.files,
                           op |-> "delete_file", filename |-> filename,
                           file_path |-> file_path,
                           existed |-> file_path \in job.fs,
                           touched |-> TRUE,
                           raises |-> raises,
                           result |-> d.result,
                           repeat |-> /\ job.op = "delete_file"
                                      /\ job.filename = filename
                                      /\ job.result]
    /\ UNCHANGED <<now, ticks, in_session, download_tokens, files, nextToken,
                   nextFile, req, servedCount>>

\* main.py:141-170  the download route with the filename of a session
\* entry, which main.py:91 stored as the last component of the output path:
\* the existence check, then send_file
DownloadPath ==
    /\ job.pc = "ready"
    /\ \E n \in Names :
          LET file_path == FilePath(<<n>>)
          IN  job' = [StoreJob EXCEPT !.fs = job.fs, !.pc = "called",
                          !.op = "download", !.filename = <<n>>,
                          !.file_path = file_path,
                          !.existed = file_path \in job.fs,
                          !.touched = TRUE,
                          !.result = file_path \in job.fs]
    /\ UNCHANGED <<now, ticks, in_session, download_tokens, files, nextToken,
                   nextFile, req, servedCount>>

\* the call has returned
StoreReturn ==
    /\ job.pc = "called"
    /\ job' = [job EXCEPT !.pc = "ready"]
    /\ UNCHANGED <<now, ticks, in_session, download_tokens, files, nextToken,
                   nextFile, req, servedCount>>

NextStore ==
    \/ SaveFile
    \/ CallDeleteFile
    \/ DownloadPath
    \/ StoreReturn

SpecStore == InitStore /\ [][NextStore]_vars

\* ---- concurrent calls of generate_image ---------------------------------------
\* the calls that may be under way at once
Jobs == {1, 2}

\* the session_id argument: None, or the caller's text
SessionIds == {"None", "s1", "s2"}

\* zone_plate.py:163  str(uuid.uuid4())[:8] of the call: no two calls draw
\* the same
UniqueId(c) == IF c = 1 THEN "uuid1" ELSE "uuid2"

\* zone_plate.py:167, 47-52  session_id or unique_id names the document:
\* temp/zone_plate_args_<id>.ps
TempName(session_id, unique_id) ==
    IF session_id = "None" THEN unique_id ELSE session_id

\* zone_plate.py:162-164, 183  the output path ends in unique_id
OutputName(unique_id) == unique_id

IdleCall ==
    [pc |-> "idle", session_id |-> "None", temp_args_file |-> "none",
     output_file |-> "none", read |-> "none"]

\* no call is under way; temp holds, for each document on disk, the call
\* that wrote it (0: no such file); out holds the artifacts by their writer
IsoJob ==
    [pc |-> "calls",
     calls |-> [c \in Jobs |-> IdleCall],
     temp |-> [n \in (SessionIds \ {"None"}) \cup {UniqueId(c) : c \in Jobs} |-> 0],
     out |-> [n \in {OutputName(UniqueId(c)) : c \in Jobs} |-> 0]]

InitIso ==
    /\ now = 0
    /\ ticks = 0
    /\ in_session = FALSE
    /\ download_tokens = <<>>
    /\ files = {}
    /\ nextToken = 1
    /\ nextFile = 1
    /\ req = EmptyBag
    /\ servedCount = [t \in TokenIds |-> 0]
    /\ job = IsoJob

\* zone_plate.py:143-164  generate_image(params, session_id) is called with
\* parameters that pass validation
IsoCall(c) ==
    /\ job.calls[c].pc = "idle"
    /\ \E session_id \in SessionIds :
          job' = [job EXCEPT !.calls[c] =
                     [IdleCall EXCEPT !.pc = "temp", !.session_id = session_id]]
    /\ UNCHANGED <<now, ticks, in_session, download_tokens, files, nextToken,
                   nextFile, req, servedCount>>

\* zone_plate.py:167, 46-72  the document is written, over a file of that
\* name if there is one
IsoTemp(c) ==
    /\ job.calls[c].pc = "temp"
    /\ LET name == TempName(job.calls[c].session_id, UniqueId(c))
       IN  job' = [job EXCEPT !.calls[c].pc = "run",
                              !.calls[c].temp_args_file = name,
                              !.temp[name] = c]
    /\ UNCHANGED <<now, ticks, in_session, download_tokens, files, nextToken,
                   nextFile, req, servedCount>>

\* zone_plate.py:183-251  the renderer reads the document that ARGFILE
\* names, whatever it holds now, and writes the output file
IsoRun(c) ==
    /\ job.calls[c].pc = "run"
    /\ LET output_file == OutputName(UniqueId(c))
       IN  job' = [job EXCEPT !.calls[c].pc = "finally",
                              !.calls[c].output_file = output_file,
                              !.calls[c].read =
                                  job.temp[job.calls[c].temp_args_file],
                              !.out[output_file] = c]
    /\ UNCHANGED <<now, ticks, in_session, download_tokens, files, nextToken,
                   nextFile, req, servedCount>>

\* zone_plate.py:259-268  the finally clause unlinks the file of that name
\* if there is one
IsoFinally(c) ==
    /\ job.calls[c].pc = "finally"
    /\ job' = [job EXCEPT !.calls[c].pc = "done",
                          !.temp[job.calls[c].temp_args_file] = 0]
    /\ UNCHANGED <<now, ticks, in_session, download_tokens, files, nextToken,
                   nextFile, req, servedCount>>

\* the call has returned; the artifact is taken away by the download
IsoReturn(c) ==
    /\ job.calls[c].pc = "done"
    /\ job' = [job EXCEPT !.calls[c] = IdleCall,
                          !.out[job.calls[c].output_file] = 0]
    /\ UNCHANGED <<now, ticks, in_session, download_tokens, files, nextToken,
                   nextFile, req, servedCount>>

NextIso ==
    \/ \E c \in Jobs : IsoCall(c)
    \/ \E c \in Jobs : IsoTemp(c)
    \/ \E c \in Jobs : IsoRun(c)
    \/ \E c \in Jobs : IsoFinally(c)
    \/ \E c \in Jobs : IsoReturn(c)

SpecIso == InitIso /\ [][NextIso]_vars

\* ---- the data model of the specification (section "Data model") ----------
\* the value can be read as a real number / as an integer / is a boolean
IsReal(v) == v.ty \in {"int", "float", "bool", "str_int", "str_float"}

IsInteger(v) ==
    \/ v.ty \in {"int", "bool", "str_int"}
    \/ v.ty = "float" /\ v.x % Scale = 0

\* the type the data model declares for the field
WellTyped(f, v) ==
    CASE f \in {"rings", "output_resolution"}        -> IsInteger(v)
      [] f = "negative_mode"                         -> v.ty = "bool"
      [] f \in {"type", "output_format"}             -> v.ty = "str"
      [] OTHER                                       -> IsReal(v)

\* the range the data model declares for the field
InRange(f, v) ==
    CASE f \in {"focal_length", "punch_diameter", "wavelength"} -> v.x > 0
      [] f = "padding"           -> v.x >= 0
      [] f = "rings"             -> v.x >= Scale /\ v.x <= 50 * Scale
      [] f = "output_resolution" -> v.x >= 300 * Scale /\ v.x <= 9600 * Scale
      [] f = "type"              -> v.w \in VALID_TYPES
      [] f = "output_format"     -> v.w \in VALID_OUTPUT_FORMATS
      [] OTHER                   -> TRUE

WellFormed(params) ==
    \A f \in FieldSet :
        f \in DOMAIN params /\ WellTyped(f, params[f]) /\ InRange(f, params[f])

\* the parameter set is the defaults but for field f, whose value has the
\* declared type and is outside the declared range or allowed set
OnlyOutOfRange(params, f) ==
    /\ DOMAIN params = FieldSet
    /\ \A g \in FieldSet \ {f} : params[g] = DEFAULT_PARAMS[g]
    /\ WellTyped(f, params[f])
    /\ ~InRange(f, params[f])

Validated == job.pc = "validated"

\* C18: validate_parameters returns an empty error set exactly for the
\* parameter sets in which every one of the thirteen fields has its declared
\* type and lies in its declared range.  The code has no block for padding
\* (nor for five other fields), so a negative padding passes.
C18_ValidatorComplete ==
    (Validated /\ DOMAIN job.params = FieldSet)
    => ((~job.raised /\ DOMAIN job.errors = {}) <=> WellFormed(job.params))

\* C19: for the defaults with one field out of its declared range, the
\* error set has that field as its only key.  Violated for padding, for
\* which no error is ever emitted.
C19_ValidatorLocal ==
    Validated
    => \A f \in FieldSet :
          OnlyOutOfRange(job.params, f)
          => (~job.raised /\ DOMAIN job.errors = {f})

\* C20: rings gets no error exactly when it is an integer in 1..50, and
\* output_resolution exactly when it is an integer in 300..9600.  Violated:
\* int() truncates, so 7.5 and 50.9 pass as rings.
C20_IntegerBoundsRejected ==
    (Validated /\ ~job.raised)
    => \A f \in {"rings", "output_resolution"} :
          f \in DOMAIN job.params
          => (f \notin DOMAIN job.errors
                <=> (IsInteger(job.params[f]) /\ InRange(f, job.params[f])))

\* ---- the render pipeline ---------------------------------------------------
\* generate_image has returned and the job is still at hand
Returned == job.pc \in {"gen_store", "returned"}

\* the response of /generate is ready
Answered == job.pc = "done" /\ job.via = "http"

\* C12: when generate_image has returned, the temporary document written
\* for the call is no longer on disk.  Violated: app.py unlinks it only
\* after subprocess.run has returned, so a timeout or an OSError leaves it;
\* zone_plate.py leaves it when os.unlink raises in the finally clause.
C12_ScopedCleanup ==
    Returned => job.temp # "written"

\* C13: a call of generate_image whose renderer has been started returns,
\* whether or not the renderer ever exits.  Violated: subprocess.run of
\* zone_plate.py has no timeout.
C13_BoundedRender ==
    (job.pc = "gi_wait") ~> Returned

\* C14: generate_image returns the artifact path only if the renderer
\* exited with code zero and the output file exists and is not empty.
\* Violated: the size of the file is logged and not tested.
C14_OutputCheck ==
    (Returned /\ job.result = "path")
    => (job.renderer = "exited" /\ job.returncode = 0 /\ job.output = "full")

\* C15: when the renderer exits with a non-zero code generate_image returns
\* None, and /generate answers with a redirect to the index page, stores no
\* token and leaves the token map as it was.
C15_RendererFailure ==
    /\ [](((Returned \/ job.pc = "done")
            /\ job.renderer = "exited" /\ job.returncode # 0)
          => /\ job.result = "None"
             /\ Answered => /\ job.resp.status = 302
                            /\ job.resp.body = "redirect:index"
                            /\ ~job.stored
                            /\ job.token = 0)
    /\ [][ (job.pc = "gen_store" /\ job' # job /\ job.returncode # 0)
           => /\ download_tokens' = download_tokens
              /\ nextToken' = nextToken ]_vars

C15_Witness ==
    /\ Answered
    /\ job.renderer = "exited"
    /\ job.returncode = 1
    /\ job.output = "full"
    /\ job.resp.flashes = <<MsgGenFail>>

C17_ValidationGate ==
    /\ []((job.pc \in {"gen_validate", "done"} /\ job.via = "http"
           /\ job.params # <<>>
           /\ DOMAIN ValidateParameters(job.params).errors # {})
          => /\ job.gi_calls = 0
             /\ job.temp = "none"
             /\ job.renderer = "none"
             /\ ~job.stored
             /\ job.token = 0
             /\ job.pc = "done"
                => /\ job.resp.status = 400
                   /\ job.resp.body = "json:errors"
                   /\ job.errors = ValidateParameters(job.params).errors)
    /\ [][ (job.pc = "gen_validate" /\ job' # job
            /\ DOMAIN ValidateParameters(job.params).errors # {})
           => /\ job'.pc = "done"
              /\ download_tokens' = download_tokens
              /\ files' = files ]_vars

C17_Witness ==
    /\ Answered
    /\ job.resp.status = 400
    /\ DOMAIN job.errors = {"rings"}
    /\ job.params["rings"] = IntV(100)

\* ---- claims about the form of /generate -----------------------------------
\* the fields whose value is a number
NumericFields == FieldSet \ {"type", "output_format", "negative_mode"}

\* a text that is not the decimal notation of a number
NonNumericText(s) == s.ty = "str"

\* C21: a /generate request with a numeric field whose text cannot be parsed
\* as a number is answered like an out-of-range value: status 400 with an
\* error keyed by that field.  Violated: the converter at main.py:69 raises
\* ValueError, the handler's except clause flashes a generic message and
\* redirects to the index page; validate_parameters is never called.
C21_UnparseableIsFieldError ==
    Answered =>
        \A f \in NumericFields \cap DOMAIN job.form :
            NonNumericText(job.form[f])
            => /\ job.resp.status = 400
               /\ f \in DOMAIN job.errors

\* the fields the specification types as positive reals and main.py
\* converts with int
RealFieldsReadAsInt == {"focal_length", "magnification", "dup_focal"}

\* the decimal notation of a positive real that is not an integer
PositiveNonInteger(s) ==
    s.ty = "str_float" /\ s.x > 0 /\ s.x % Scale # 0

\* C22: a /generate request whose focal_length, magnification or dup_focal
\* is a positive real that is not an integer (7.5) passes extraction and
\* validation: the parameter set holds that value and generate_image is
\* called with it.  Violated: main.py:56-58 convert these fields with int,
\* which raises ValueError on "7.5".
C22_RealFieldsAccepted ==
    Answered =>
        \A f \in RealFieldsReadAsInt \cap DOMAIN job.form :
            (PositiveNonInteger(job.form[f]) /\ DOMAIN job.form = {f})
            => /\ job.params # <<>>
               /\ job.params[f].x = job.form[f].x
               /\ job.resp.status # 400
               /\ job.gi_calls = 1

\* ---- claims about the argument document --------------------------------------
\* the document of the call has been written and its path returned
Written == job.pc = "written"

\* the segments of the package's template that are placeholders
Slots == {i \in 1..Len(TEMPLATE) : TEMPLATE[i] \in Placeholders}

\* the key of the placeholder at segment i of the template
SlotKey(i) == CHOOSE k \in FieldSet : TEMPLATE[i] = Ph(k)

\* C23: materialization either fails or yields a document without residual
\* placeholder: when the document has been written for the renderer, no
\* placeholder of the template whose key has no entry in the parameter set
\* is still in it.  Violated: the loop of zone_plate.py:62-65 runs over the
\* keys of params only, a placeholder without entry is left as it is, and
\* the document is written and its path returned.
C23_TotalSubstitution ==
    (Written /\ job.impl = "package") =>
        \A i \in Slots :
            ~(SlotKey(i) \notin DOMAIN job.params /\ job.content[i] = TEMPLATE[i])

\* C24: the text inserted for a placeholder is the value's text, verbatim,
\* also when the value reads {{other_key}}; hence the document does not
\* depend on the order of the keys.  Violated: each turn of the loop
\* substitutes in the text produced by the turns before it.
C24_SinglePass ==
    (Written /\ job.impl = "package") =>
        \A i \in Slots :
            SlotKey(i) \in DOMAIN job.params
            => job.content[i] = Str(job.params[SlotKey(i)])

\* the text the document holds for negative_mode
NegativeModeText ==
    IF job.impl = "package"
    THEN job.content[CHOOSE i \in Slots : SlotKey(i) = "negative_mode"]
    ELSE job.content[CHOOSE i \in 1..Len(LegacyKeys) :
                        LegacyKeys[i] = "negative_mode"]

\* C25: whatever negative_mode the form of /generate held (absent, on, any
\* other text), and for a boolean handed to create_postscript_content, the
\* document holds exactly true or false in lower case.  Violated: main.py:62
\* keeps the default, the boolean False, for every text that is not true,
\* on, yes or 1, and for an absent field (main.py:71); str(False) is
\* "False" in zone_plate.py:65.
C25_CanonicalBoolean ==
    (Written /\ (\/ job.via = "route"
                 \/ job.impl = "legacy" /\ job.params["negative_mode"].ty = "bool"))
        => NegativeModeText \in {StrV("true"), StrV("false")}

\* ---- claims about the end of a download ---------------------------------------
\* C29: the download route removes the artifact only in a request whose
\* response delivers that file.  Violated: delete_after_download is
\* registered before send_file is called (main.py:154-166); when send_file
\* raises, the except clause returns a redirect, the callback runs on that
\* response and delete_file removes the artifact nobody received.
C29_DeleteOnlyAfterDelivery ==
    \A q \in InFlight :
        (q.kind = "download" /\ q.deleted = "true")
        => /\ q.branch = "file"
           /\ q.resp.status = 200

\* a download past line 144: at the file check, at send_file, at the
\* callback, or answered with the file or with "File not found"
PastPop(q) ==
    /\ q.kind = "download"
    /\ \/ q.pc \in {"dl_exists", "dl_send", "dl_after"}
       \/ Done(q) /\ q.branch \in {"file", "notfound"}

Deleted == job.pc = "called" /\ job.op = "delete_file"

\* C26: delete_file returns True exactly when the file was there and this
\* call removed it; False, and nothing is removed, when it was not there;
\* False, and the file stays, when the unlink raises; False for a name
\* that cannot be joined to the directory; and False when the call before
\* it removed the same file.  The call leaves every other file alone.
C26_DeleteFileContract ==
    /\ [](Deleted =>
            /\ job.result \in BOOLEAN
            /\ job.result <=> (job.existed /\ job.file_path \notin job.fs)
            /\ ~job.existed => ~job.result
            /\ (job.existed /\ job.raises)
               => (~job.result /\ job.file_path \in job.fs)
            /\ ~job.touched => ~job.result
            /\ job.repeat => ~job.result)
    /\ [][ (job.pc = "ready" /\ job'.pc = "called" /\ job'.op = "delete_file")
           => /\ job'.fs \subseteq job.fs
              /\ job.fs \ job'.fs \subseteq {job'.file_path} ]_vars

\* the second of two calls for the same file, the first of which removed it
C26_Witness ==
    /\ Deleted
    /\ job.repeat
    /\ ~job.result
    /\ job.filename \in {<<n>> : n \in Names}
    /\ job.fs # {}

\* the path names a file directly in the output directory
DirectChild(path) ==
    /\ Len(path) = Len(OUTPUT_DIR) + 1
    /\ SubSeq(path, 1, Len(OUTPUT_DIR)) = OUTPUT_DIR

\* C27: every path on which download and delete_file check existence,
\* send or unlink names a file directly in the output directory.
\* Violated: delete_file joins the name to the directory as it is
\* (zone_plate.py:131), so ../a.png, sub/a.png and /etc/a.png lead outside.
C27_Confinement ==
    (job.pc = "called" /\ job.touched) => DirectChild(job.file_path)

\* ---- claims about concurrent calls ---------------------------------------------
\* the call has its document on disk and has not cleaned up yet
Rendering(c) == job.calls[c].pc \in {"run", "finally"}

\* C28: two calls of generate_image under way at once use different
\* documents and different output files, also when the callers supply a
\* session_id; the document a call hands to the renderer is its own, still
\* there and not overwritten, and so is its artifact.  Violated: the
\* document is named after session_id alone (zone_plate.py:51, 167), so two
\* calls with the same session_id write the same file, and the finally
\* clause of one unlinks it under the other.
C28_JobIsolation ==
    /\ \A c, d \in Jobs :
          (c # d /\ Rendering(c) /\ Rendering(d))
          => job.calls[c].temp_args_file # job.calls[d].temp_args_file
    /\ \A c \in Jobs :
          /\ job.calls[c].pc = "run"
             => job.temp[job.calls[c].temp_args_file] = c
          /\ job.calls[c].pc \in {"finally", "done"}
             => /\ job.calls[c].read = c
                /\ job.out[job.calls[c].output_file] = c

====
